---- MODULE Spec2Model ----
(***************************************************************************)
(* http_blaster: main() of http_blaster.go as a state machine.             *)
(*                                                                         *)
(* The orchestrator (main) loads the configuration, builds one executor    *)
(* per workload, raises the shared wait group, starts the executors,      *)
(* waits for them, folds their Results in report() and leaves through     *)
(* exit() and the deferred handle_exit().  The executors run concurrently  *)
(* with the orchestrator between Start() and their Done().                 *)
(*                                                                         *)
(* Durations are integers (nanoseconds), as time.Duration is an int64.     *)
(* The float64 products and quotients of report() are exact on the values  *)
(* modelled here (all below 2^53) and the conversion back to time.Duration *)
(* truncates, so they are modelled by integer * and \div.  The counters   *)
(* stay far below 2^64, so uint64 wrap-around does not arise.              *)
(*                                                                         *)
(* Flag parsing, log mirroring and the profiling hooks are left out: they  *)
(* touch none of the state below.                                          *)
(***************************************************************************)
EXTENDS Integers, Sequences, FiniteSets, TLC

\* ---------------------------------------------------------------- bounds
MaxWorkloads == 2      \* workloads in the configuration file
MaxTotal == 2          \* successful requests counted by one executor
MaxErrors == 1         \* failed requests counted by one executor
MaxLat == 2            \* latencies are 0, 500, ..., MaxLat * 500 ns
MaxDuration == 2       \* configured test duration, in seconds

Latencies == { k * 500 : k \in 0..MaxLat }

\* CommandType constants, plus one Type the code does not name
GET == "GET"
PUT == "PUT"
POST == "POST"
Types == {GET, PUT, POST, "HEAD"}

VARIABLES
    pc,               \* position of main()
    config_ok,        \* LoadConfig(conf_file) succeeds
    results_file_ok,  \* os.Create(results_file) succeeds
    duration,         \* config.Global.Duration, seconds
    workloads,        \* config.Workloads: name -> Type
    wl_id,            \* the workload id generator
    executors,        \* the executors list, in the order it was built
    ex,               \* per executor: state and counters
    ex_group,         \* the sync.WaitGroup counter
    idx,              \* index of the range loop main() is in
    acc,              \* the overall_* locals of report()
    errors,           \* the errors slice of report()
    file,             \* lines written to results_file
    err_code,         \* value returned by report(), -1 before
    panicking,        \* exit() has panicked
    log_fatal,        \* which log.Fatal call ended the process
    exit_status       \* process exit status, -1 while running

vars == <<pc, config_ok, results_file_ok, duration, workloads, wl_id, executors,
          ex, ex_group, idx, acc, errors, file, err_code, panicking, log_fatal,
          exit_status>>

\* ------------------------------------------------------------- executor
\* An executor before Start(): no samples, no errors.
NewExecutorState ==
    [state |-> "Idle", total |-> 0, sum |-> 0, min |-> 0, max |-> 0,
     error_count |-> 0]

\* Executor.Report(): the Result, all zero when total = 0.
ExecutorReport(x) ==
    IF x.total = 0
    THEN [Total |-> 0, Iops |-> 0, Avg |-> 0, Min |-> 0, Max |-> 0]
    ELSE [Total |-> x.total, Iops |-> x.total \div duration,
          Avg |-> x.sum \div x.total, Min |-> x.min, Max |-> x.max]

\* Executor.Report() fails with ExecutionError when error_count > 0.
ExecutorError(x) == x.error_count > 0

\* One worker of an executor completes one request.
RecordSuccess(x, lat) ==
    [x EXCEPT !.total = @ + 1,
              !.sum = @ + lat,
              !.min = IF x.total = 0 \/ lat < @ THEN lat ELSE @,
              !.max = IF lat > @ THEN lat ELSE @]

RecordFailure(x) == [x EXCEPT !.error_count = @ + 1]

\* ------------------------------------------------------------- report()
ZeroAcc ==
    [overall_requests |-> 0, overall_get_requests |-> 0,
     overall_put_requests |-> 0,
     overall_get_lat_max |-> 0, overall_get_lat_min |-> 0,
     overall_put_lat_max |-> 0, overall_put_lat_min |-> 0,
     overall_iops |-> 0, overall_get_iops |-> 0, overall_put_iops |-> 0,
     overall_get_avg_lat |-> 0, overall_put_avg_lat |-> 0]

\* executor.Workload.Type == "GET"
IsGet(type) == type = GET

\* variant: the else branch tests for PUT, so other Types reach no bucket
MergeRequestsLosingPost(a, type, r) ==
    [a EXCEPT !.overall_requests = @ + r.Total,
              !.overall_get_requests = IF type = GET THEN @ + r.Total ELSE @,
              !.overall_put_requests = IF type = PUT THEN @ + r.Total ELSE @]

\* overall_requests and the two bucket counts
MergeRequests(a, type, r) ==
    [a EXCEPT !.overall_requests = @ + r.Total,
              !.overall_get_requests = IF IsGet(type) THEN @ + r.Total ELSE @,
              !.overall_put_requests = IF IsGet(type) THEN @ ELSE @ + r.Total]

\* overall_iops and the two bucket iops
MergeIops(a, type, r) ==
    [a EXCEPT !.overall_iops = @ + r.Iops,
              !.overall_get_iops = IF IsGet(type) THEN @ + r.Iops ELSE @,
              !.overall_put_iops = IF IsGet(type) THEN @ ELSE @ + r.Iops]

\* variant: the average is added without its weight
WeightedTermUnweighted(r) == r.Avg

\* time.Duration(float64(results.Avg) * float64(results.Total))
WeightedTerm(r) == r.Avg * r.Total

\* variant: the max is guarded like the min, by the zero sentinel alone
MergeMaxFirstWins(cur, r) == IF cur = 0 THEN r.Max ELSE cur

\* if overall_lat_max < results.Max { overall_lat_max = results.Max }
MergeMax(cur, r) == IF cur < r.Max THEN r.Max ELSE cur

\* if overall_lat_min == 0 { overall_lat_min = results.Min }
\* if overall_lat_min > results.Min { overall_lat_min = results.Min }
MergeMin(cur, r) ==
    LET first == IF cur = 0 THEN r.Min ELSE cur
    IN  IF first > r.Min THEN r.Min ELSE first

\* the latency part of one loop iteration, for the executor's bucket
MergeLatency(a, type, r) ==
    IF IsGet(type)
    THEN [a EXCEPT !.overall_get_avg_lat = @ + WeightedTerm(r),
                   !.overall_get_lat_max = MergeMax(@, r),
                   !.overall_get_lat_min = MergeMin(@, r)]
    ELSE [a EXCEPT !.overall_put_avg_lat = @ + WeightedTerm(r),
                   !.overall_put_lat_max = MergeMax(@, r),
                   !.overall_put_lat_min = MergeMin(@, r)]

\* variant: the loop continues past an executor whose Report() failed
MergeAbortingOnError(a, type, r, err) ==
    IF err THEN a ELSE MergeIops(MergeLatency(MergeRequests(a, type, r), type, r), type, r)

\* the body of the range loop of report(), after the error was recorded
Merge(a, type, r, err) ==
    MergeIops(MergeLatency(MergeRequests(a, type, r), type, r), type, r)

\* errors = append(errors, err) when err != nil
MergeErrors(errs, name, err) == IF err THEN Append(errs, name) ELSE errs

\* time.Duration(float64(sum) / float64(requests)) when requests != 0
FinalAvg(sum, requests) == IF requests # 0 THEN sum \div requests ELSE sum

FinishAcc(a) ==
    [a EXCEPT !.overall_get_avg_lat = FinalAvg(@, a.overall_get_requests),
              !.overall_put_avg_lat = FinalAvg(@, a.overall_put_requests)]

\* d.Nanoseconds()/1e3
Usec(d) == d \div 1000

Line(section, key, val) == [section |-> section, key |-> key, val |-> val]

\* the lines report() writes to the results file
RenderReport(a) ==
    << Line("global", "[global]", 0),
       Line("global", "overall_requests", a.overall_requests),
       Line("global", "overall_iops", a.overall_iops),
       Line("get", "[get]", 0),
       Line("get", "overall_requests", a.overall_get_requests),
       Line("get", "overall_iops", a.overall_get_iops),
       Line("get", "overall_lat_min", Usec(a.overall_get_lat_min)),
       Line("get", "overall_lat_max", Usec(a.overall_get_lat_max)),
       Line("get", "overall_lat_avg", Usec(a.overall_get_avg_lat)),
       Line("put", "[put]", 0),
       Line("put", "overall_requests", a.overall_put_requests),
       Line("put", "overall_iops", a.overall_put_iops),
       Line("put", "overall_lat_min", Usec(a.overall_put_lat_min)),
       Line("put", "overall_lat_max", Usec(a.overall_put_lat_max)),
       Line("put", "overall_lat_avg", Usec(a.overall_put_avg_lat)) >>

\* return 2 when len(errors) > 0, else 0
ReportCode(errs) == IF Len(errs) > 0 THEN 2 ELSE 0

\* ----------------------------------------------------------- wait group
\* variant: ex_group.Add(1)
AddOne(n) == 1

\* ex_group.Add(len(executors))
AddCount(n) == n

\* variant: no ex_group.Wait()
WaitReturnsAtOnce == TRUE

\* ex_group.Wait() returns when the counter is zero
WaitReturns == ex_group = 0

\* ----------------------------------------------------------------- Init
Init ==
    /\ pc = "load_test_Config"
    /\ config_ok \in BOOLEAN
    /\ results_file_ok \in BOOLEAN
    /\ duration \in 1..MaxDuration
    /\ \E n \in 0..MaxWorkloads : workloads \in [1..n -> Types]
    /\ wl_id = 0
    /\ executors = <<>>
    /\ ex = <<>>
    /\ ex_group = 0
    /\ idx = 0
    /\ acc = ZeroAcc
    /\ errors = <<>>
    /\ file = <<>>
    /\ err_code = -1
    /\ panicking = FALSE
    /\ log_fatal = ""
    /\ exit_status = -1

\* ------------------------------------------------------------ main()
\* load_test_Config: a config that does not parse ends the process
load_test_Config ==
    /\ pc = "load_test_Config"
    /\ \/ /\ config_ok
          /\ pc' = "generate_executors"
          /\ UNCHANGED <<log_fatal, exit_status>>
       \/ /\ ~config_ok
          /\ log_fatal' = "Failed to parse config file"
          /\ exit_status' = 1
          /\ pc' = "exited"
    /\ UNCHANGED <<config_ok, results_file_ok, duration, workloads, wl_id,
                   executors, ex, ex_group, idx, acc, errors, file, err_code,
                   panicking>>

\* the orders in which a range over a map with key set S may visit it
MapOrders(S) ==
    { p \in [1..Cardinality(S) -> S] :
        \A a, b \in 1..Cardinality(S) : a # b => p[a] # p[b] }

\* generate_executors: one executor per workload, in map order;
\* get_workload_id() returns wl_id and then adds one to it
generate_executors ==
    /\ pc = "generate_executors"
    /\ \E p \in MapOrders(DOMAIN workloads) :
          executors' = [k \in 1..Len(p) |->
                           [Name |-> p[k], Type |-> workloads[p[k]],
                            Id |-> wl_id + k - 1]]
    /\ wl_id' = wl_id + Cardinality(DOMAIN workloads)
    /\ ex' = [k \in 1..Cardinality(DOMAIN workloads) |-> NewExecutorState]
    /\ pc' = "start_executors"
    /\ UNCHANGED <<config_ok, results_file_ok, duration, workloads, ex_group,
                   idx, acc, errors, file, err_code, panicking, log_fatal,
                   exit_status>>

\* start_executors, up to its range loop: ex_group.Add(len(executors))
start_executors ==
    /\ pc = "start_executors"
    /\ ex_group' = ex_group + AddCount(Len(executors))
    /\ idx' = 0
    /\ pc' = IF Len(executors) = 0 THEN "wait_for_completion" ELSE "start_loop"
    /\ UNCHANGED <<config_ok, results_file_ok, duration, workloads, wl_id,
                   executors, ex, acc, errors, file, err_code, panicking,
                   log_fatal, exit_status>>

\* one iteration of the range loop of start_executors: e.Start(&ex_group)
start_loop ==
    /\ pc = "start_loop"
    /\ idx < Len(executors)
    /\ ex' = [ex EXCEPT ![idx + 1].state = "Running"]
    /\ idx' = idx + 1
    /\ pc' = IF idx + 1 = Len(executors) THEN "wait_for_completion" ELSE "start_loop"
    /\ UNCHANGED <<config_ok, results_file_ok, duration, workloads, wl_id,
                   executors, ex_group, acc, errors, file, err_code, panicking,
                   log_fatal, exit_status>>

\* a worker of executor e completes one request before the deadline; the
\* counters are updated atomically (spec 4.1)
WorkerRequest(e) ==
    /\ ex[e].state = "Running"
    /\ \/ /\ ex[e].total < MaxTotal
          /\ \E lat \in Latencies : ex' = [ex EXCEPT ![e] = RecordSuccess(@, lat)]
       \/ /\ ex[e].error_count < MaxErrors
          /\ ex' = [ex EXCEPT ![e] = RecordFailure(@)]
    /\ UNCHANGED <<pc, config_ok, results_file_ok, duration, workloads, wl_id,
                   executors, ex_group, idx, acc, errors, file, err_code,
                   panicking, log_fatal, exit_status>>

\* every worker of executor e has seen the deadline: wg.Done()
WorkerDone(e) ==
    /\ ex[e].state = "Running"
    /\ ex' = [ex EXCEPT ![e].state = "Done"]
    /\ ex_group' = ex_group - 1
    /\ UNCHANGED <<pc, config_ok, results_file_ok, duration, workloads, wl_id,
                   executors, idx, acc, errors, file, err_code, panicking,
                   log_fatal, exit_status>>

\* wait_for_completion: ex_group.Wait()
wait_for_completion ==
    /\ pc = "wait_for_completion"
    /\ WaitReturns
    /\ idx' = 0
    /\ pc' = "report"
    /\ UNCHANGED <<config_ok, results_file_ok, duration, workloads, wl_id,
                   executors, ex, ex_group, acc, errors, file, err_code,
                   panicking, log_fatal, exit_status>>

\* one iteration of the range loop of report(); Report() reads the
\* executor's counters as they are, which the barrier makes final
report_loop ==
    /\ pc = "report"
    /\ idx < Len(executors)
    /\ LET e == executors[idx + 1]
           results == ExecutorReport(ex[idx + 1])
           err == ExecutorError(ex[idx + 1])
       IN  /\ errors' = MergeErrors(errors, e.Name, err)
           /\ acc' = Merge(acc, e.Type, results, err)
    /\ idx' = idx + 1
    /\ UNCHANGED <<pc, config_ok, results_file_ok, duration, workloads, wl_id,
                   executors, ex, ex_group, file, err_code, panicking,
                   log_fatal, exit_status>>

\* report() after its loop: the averages, the results file, the return code
report_finish ==
    /\ pc = "report"
    /\ idx = Len(executors)
    /\ acc' = FinishAcc(acc)
    /\ \/ /\ results_file_ok
          /\ file' = RenderReport(FinishAcc(acc))
          /\ err_code' = ReportCode(errors)
          /\ pc' = "exit"
          /\ UNCHANGED <<log_fatal, exit_status>>
       \/ /\ ~results_file_ok
          /\ log_fatal' = "os.Create(results_file)"
          /\ exit_status' = 1
          /\ pc' = "exited"
          /\ UNCHANGED <<file, err_code>>
    /\ UNCHANGED <<config_ok, results_file_ok, duration, workloads, wl_id,
                   executors, ex, ex_group, idx, errors, panicking>>

\* exit(err_code): panics unless err_code is 0
exit ==
    /\ pc = "exit"
    /\ panicking' = (err_code # 0)
    /\ pc' = "handle_exit"
    /\ UNCHANGED <<config_ok, results_file_ok, duration, workloads, wl_id,
                   executors, ex, ex_group, idx, acc, errors, file, err_code,
                   log_fatal, exit_status>>

\* the deferred handle_exit: os.Exit(1) when it recovers a panic,
\* otherwise main returns
handle_exit ==
    /\ pc = "handle_exit"
    /\ exit_status' = IF panicking THEN 1 ELSE 0
    /\ pc' = "exited"
    /\ UNCHANGED <<config_ok, results_file_ok, duration, workloads, wl_id,
                   executors, ex, ex_group, idx, acc, errors, file, err_code,
                   panicking, log_fatal>>

Next ==
    \/ load_test_Config
    \/ generate_executors
    \/ start_executors
    \/ start_loop
    \/ \E e \in DOMAIN ex : WorkerRequest(e)
    \/ \E e \in DOMAIN ex : WorkerDone(e)
    \/ wait_for_completion
    \/ report_loop
    \/ report_finish
    \/ exit
    \/ handle_exit

Spec == Init /\ [][Next]_vars

\* ------------------------------------------------------- claim vocabulary
NumExecutors == Len(executors)

AllDone == \A i \in DOMAIN ex : ex[i].state = "Done"

ConfigFatal == log_fatal = "Failed to parse config file"

CreateFatal == log_fatal = "os.Create(results_file)"

\* main() is past wait_for_completion()
PastWait ==
    \/ pc \in {"report", "exit", "handle_exit"}
    \/ pc = "exited" /\ ~ConfigFatal

\* the range loop of report() has visited every executor
Folded == PastWait /\ (pc = "report" => idx = NumExecutors)

\* report() is past the division of the averages
Averaged == PastWait /\ pc # "report"

\* report() has returned
Returned == err_code # -1

ResultOf(i) == ExecutorReport(ex[i])

GetBucket == { i \in DOMAIN executors : executors[i].Type = GET }

PutBucket == { i \in DOMAIN executors : executors[i].Type # GET }

Sampled(B) == { i \in B : ResultOf(i).Total > 0 }

RECURSIVE SumTotals(_)
SumTotals(S) ==
    IF S = {} THEN 0
    ELSE LET i == CHOOSE j \in S : TRUE
         IN  ResultOf(i).Total + SumTotals(S \ {i})

RECURSIVE SumWeighted(_)
SumWeighted(S) ==
    IF S = {} THEN 0
    ELSE LET i == CHOOSE j \in S : TRUE
         IN  ResultOf(i).Avg * ResultOf(i).Total + SumWeighted(S \ {i})

Least(S) == CHOOSE m \in S : \A n \in S : m <= n

Greatest(S) == CHOOSE m \in S : \A n \in S : n <= m

\* report() folded over the executors visited in the order p
RECURSIVE FoldOver(_, _)
FoldOver(p, k) ==
    IF k = 0 THEN ZeroAcc
    ELSE Merge(FoldOver(p, k - 1), executors[p[k]].Type, ResultOf(p[k]), FALSE)

\* ---------------------------------------------------------------- C1
\* C1: once report() has returned, the process exit status is 0 when no
\* executor's Report() returned an error and 2 when at least one did.
ExitStatusContract ==
    (pc = "exited" /\ Returned) =>
        exit_status = IF \E i \in DOMAIN ex : ExecutorError(ex[i]) THEN 2 ELSE 0

\* ---------------------------------------------------------------- C2
\* C2: no Report() call, and no later step of main, happens while an
\* executor has not signalled Done; from the first Start() on, the wait
\* group counter equals the number of executors that have not signalled.
CompletionBarrier ==
    /\ PastWait => AllDone
    /\ (\E i \in DOMAIN ex : ex[i].state # "Idle") =>
           ex_group = Cardinality({ i \in DOMAIN ex : ex[i].state # "Done" })

CompletionBarrierWitness ==
    /\ pc = "report" /\ idx = 1 /\ NumExecutors = 2
    /\ ex[1].total > 0 /\ ex[2].total > 0

\* ---------------------------------------------------------------- C3
\* C3: after the fold, get requests + put requests = overall requests =
\* the sum of Result.total over all executors, GET totals in the read
\* bucket and the totals of every other type in the write bucket.
RequestPartition ==
    Folded =>
        /\ acc.overall_get_requests + acc.overall_put_requests = acc.overall_requests
        /\ acc.overall_requests = SumTotals(DOMAIN executors)
        /\ acc.overall_get_requests = SumTotals(GetBucket)
        /\ acc.overall_put_requests = SumTotals(PutBucket)

RequestPartitionWitness ==
    /\ Folded /\ NumExecutors = 2
    /\ executors[1].Type = POST /\ executors[2].Type = GET
    /\ ex[1].total = 2 /\ ex[2].total = 1

\* ---------------------------------------------------------------- C4
\* C4: after the fold, each bucket's min latency is at most the min of
\* every Result of that bucket that has total > 0.
MinIsLowerBound ==
    Folded =>
        /\ \A i \in Sampled(GetBucket) : acc.overall_get_lat_min <= ResultOf(i).Min
        /\ \A i \in Sampled(PutBucket) : acc.overall_put_lat_min <= ResultOf(i).Min

\* ---------------------------------------------------------------- C5
\* C5: after the fold, the min of a bucket that has a Result with
\* total > 0 is the least min among its Results with total > 0.
MinExcludesEmptyResults ==
    Folded =>
        /\ Sampled(GetBucket) # {} =>
               acc.overall_get_lat_min =
                   Least({ ResultOf(i).Min : i \in Sampled(GetBucket) })
        /\ Sampled(PutBucket) # {} =>
               acc.overall_put_lat_min =
                   Least({ ResultOf(i).Min : i \in Sampled(PutBucket) })

\* avg is the weighted sum of bucket B over requests, truncated
AvgLaw(avg, requests, B) ==
    IF requests # 0
    THEN /\ avg * requests <= SumWeighted(B)
         /\ SumWeighted(B) < avg * requests + requests
    ELSE avg = 0

\* ---------------------------------------------------------------- C6
\* C6: a bucket with requests has avg = (sum of avg_i * total_i) divided by
\* its requests, short of the weighted sum by less than the requests; a
\* bucket without requests has avg 0.
WeightedAverageLaw ==
    Averaged =>
        /\ AvgLaw(acc.overall_get_avg_lat, acc.overall_get_requests, GetBucket)
        /\ AvgLaw(acc.overall_put_avg_lat, acc.overall_put_requests, PutBucket)

WeightedAverageLawWitness ==
    /\ Averaged /\ GetBucket = {1, 2}
    /\ ResultOf(1).Total # ResultOf(2).Total
    /\ ResultOf(1).Avg # ResultOf(2).Avg
    /\ acc.overall_get_avg_lat * acc.overall_get_requests < SumWeighted(GetBucket)

\* ---------------------------------------------------------------- C7
\* C7: when report() returns, every erroring executor's error has been
\* collected, the totals are those of a run without errors and count every
\* executor, and the file holds the [global], [get] and [put] sections.
PartialFailureTolerance ==
    Returned =>
        /\ Len(errors) = Cardinality({ i \in DOMAIN ex : ExecutorError(ex[i]) })
        /\ \A i \in DOMAIN ex :
               ExecutorError(ex[i]) <=>
                   \E k \in DOMAIN errors : errors[k] = executors[i].Name
        /\ acc = FinishAcc(FoldOver([k \in 1..NumExecutors |-> k], NumExecutors))
        /\ acc.overall_requests = SumTotals(DOMAIN executors)
        /\ file = RenderReport(acc)
        /\ { file[k].section : k \in DOMAIN file } = {"global", "get", "put"}

PartialFailureToleranceWitness ==
    /\ Returned /\ NumExecutors = 2
    /\ ExecutorError(ex[1]) /\ ex[1].total > 0
    /\ ~ExecutorError(ex[2]) /\ ex[2].total > 0
    /\ err_code = 2

\* ---------------------------------------------------------------- C8
\* C8 as written: in a run where the results file cannot be created no
\* executor is ever started.
CreateFailureAbortsBeforeLoad ==
    ~results_file_ok => \A i \in DOMAIN ex : ex[i].state = "Idle"

\* C8 amended: a config that fails to load ends the process before any
\* executor exists; a results file that cannot be created ends it with
\* status 1 and nothing written, after every executor has completed.
FatalErrorTiming ==
    /\ ConfigFatal => (executors = <<>> /\ exit_status = 1)
    /\ CreateFatal =>
           /\ AllDone
           /\ idx = NumExecutors
           /\ file = <<>>
           /\ ~Returned
           /\ exit_status = 1

FatalErrorTimingWitness ==
    /\ CreateFatal /\ NumExecutors = 2
    /\ ex[1].total > 0 /\ ex[2].total > 0

\* ---------------------------------------------------------------- C9
\* C9: the report written is the same for every order in which the
\* executors could have been listed.
ReportIsOrderIndependent ==
    Returned =>
        \A p \in MapOrders(DOMAIN executors) :
            file = RenderReport(FinishAcc(FoldOver(p, NumExecutors)))

\* ---------------------------------------------------------------- C10
\* C10: after the fold, each bucket's max latency is the greatest max among
\* the bucket's Results, 0 for a bucket without Results.
MaxIsGreatest ==
    Folded =>
        /\ acc.overall_get_lat_max =
               Greatest({ ResultOf(i).Max : i \in GetBucket } \cup {0})
        /\ acc.overall_put_lat_max =
               Greatest({ ResultOf(i).Max : i \in PutBucket } \cup {0})

MaxIsGreatestWitness ==
    /\ Folded /\ NumExecutors = 2
    /\ executors[1].Type = PUT /\ executors[2].Type = POST
    /\ ResultOf(1).Max > 0
    /\ ResultOf(2).Max > ResultOf(1).Max

====
